---- MODULE Spec2Model ----
(***************************************************************************)
(* Model of the fake clock of go-toolbelt/clock (src/fake.go): the sleeper *)
(* registry, the blocker list, the virtual instant, and the timer and      *)
(* ticker handles built on them.                                           *)
(*                                                                         *)
(* Heap objects (sleepers, channels, timers, tickers) are numbered from 1  *)
(* in allocation order; 0 stands for a nil channel.  Instants and          *)
(* durations are integers (seconds).  Slice indices keep Go's numbering    *)
(* (0-based, -1 = not registered); position k of a Go slice is element     *)
(* k+1 of the sequence that models it.                                     *)
(***************************************************************************)
EXTENDS Integers, Sequences, FiniteSets, TLC

\* ---- bounds of the model ----
MaxTime == 3
MaxSleepers == 3
MaxChans == 2
MaxTimers == 2
MaxTickers == 1
MaxBlockers == 2
MaxObjects == 3         \* heap objects after which a run stops allocating
MaxGoroutines == 2      \* goroutines that call Sleep

\* ---- program constants ----
StartTime == 1          \* NewFakeClock: time.Unix(1, 0)
ChanCap == 1            \* make(chan time.Time, 1)
ZeroTime == 0           \* the zero time.Time of a sleeper built without `until`

\* ---- inputs ----
Durations == {-1, 0, 1, 2}
Periods == {1, 2}
Counts == {0, 1, 2}
SleepDurations == {0, 1, 2}

VARIABLES
    at,         \* fakeClock.at
    sleepers,   \* fakeClock.sleepers: sequence of sleeper ids
    blockers,   \* fakeClock.blockers: sequence of [n, done]
    sl,         \* the sleeper structs: [i, until, woke, c, f]
    chans,      \* the time channels: the buffered values of each
    dones,      \* the done channels of Until: [closed], with the history of the call
                \* that made each: n, and had = the number of sleepers pending at the call
    timers,     \* the fakeTimer structs: [stopped, sleeper]
    tickers,    \* the fakeTicker structs: [interval, next, stopped, sleeper]
    fault,      \* "none", or how the running call ended: "blocked" | "index" | "close"
    sent,       \* history: number of values ever sent on each time channel
    started,    \* history: callback goroutines started by each sleeper since it was armed
    halted,     \* history of each timer: "never" stopped, "stopped", or "rearmed" by a Reset after a Stop
    thalted,    \* history: ticker k was stopped and not reset since
    tchans,     \* history: the channels returned by C() of each ticker
    dropped,    \* history: ticker channels re-requested while their tick was pending
    g           \* the goroutines of a program that sleeps on the clock, and its driver:
                \* [pc, dur, ch, drv, dch]

progVars == <<at, sleepers, blockers, sl, chans, dones, timers, tickers, fault,
              sent, started>>
vars == <<at, sleepers, blockers, sl, chans, dones, timers, tickers, fault,
          sent, started, halted, thalted, tchans, dropped, g>>

\* The clock and the heap it reaches, as one value the helpers transform.
Cur ==
    [at |-> at, sleepers |-> sleepers, blockers |-> blockers, sl |-> sl,
     chans |-> chans, dones |-> dones, timers |-> timers, tickers |-> tickers,
     fault |-> fault, sent |-> sent, started |-> started]

Commit(st) ==
    /\ at' = st.at
    /\ sleepers' = st.sleepers
    /\ blockers' = st.blockers
    /\ sl' = st.sl
    /\ chans' = st.chans
    /\ dones' = st.dones
    /\ timers' = st.timers
    /\ tickers' = st.tickers
    /\ fault' = st.fault
    /\ sent' = st.sent
    /\ started' = st.started

\* ---- allocation ----
makeChan(st) == [st EXCEPT !.chans = Append(@, <<>>), !.sent = Append(@, 0)]

newSleeper(st, i, until, c, f) ==
    [st EXCEPT !.sl = Append(@, [i |-> i, until |-> until, woke |-> FALSE,
                                 c |-> c, f |-> f]),
               !.started = Append(@, 0)]

\* ---- channel send: s.c <- s.until ----
sendNow(st, c, v) ==
    IF Len(st.chans[c]) >= ChanCap
    THEN [st EXCEPT !.fault = "blocked"]
    ELSE [st EXCEPT !.chans[c] = Append(@, st.at), !.sent[c] = @ + 1]

send(st, c, v) ==
    IF Len(st.chans[c]) >= ChanCap
    THEN [st EXCEPT !.fault = "blocked"]
    ELSE [st EXCEPT !.chans[c] = Append(@, v), !.sent[c] = @ + 1]

\* ---- sleeper.wake ----
wakeAlways(st, s) ==
    LET st1 == [st EXCEPT !.sl[s].woke = TRUE]
        st2 == IF st.sl[s].c # 0 THEN send(st1, st.sl[s].c, st.sl[s].until) ELSE st1
    IN  IF st2.fault = "none" /\ st.sl[s].f
        THEN [st2 EXCEPT !.started[s] = @ + 1]
        ELSE st2

wake(st, s) ==
    IF st.sl[s].woke THEN st
    ELSE LET st1 == [st EXCEPT !.sl[s].woke = TRUE]
             st2 == IF st.sl[s].c # 0 THEN send(st1, st.sl[s].c, st.sl[s].until) ELSE st1
         IN  IF st2.fault = "none" /\ st.sl[s].f
             THEN [st2 EXCEPT !.started[s] = @ + 1]
             ELSE st2

\* ---- close(blocker.done) ----
closeDone(st, b) ==
    IF st.dones[b].closed
    THEN [st EXCEPT !.fault = "close"]
    ELSE [st EXCEPT !.dones[b].closed = TRUE]

\* ---- fakeClock.checkBlockers: in-place filter of clock.blockers ----
RECURSIVE checkBlockersLoopLate(_, _, _, _)
checkBlockersLoopLate(st, arr, j, n) ==
    IF st.fault # "none" THEN st
    ELSE IF j > Len(arr) THEN [st EXCEPT !.blockers = SubSeq(arr, 1, n)]
    ELSE IF Len(st.sleepers) <= arr[j].n
         THEN checkBlockersLoopLate(st, [arr EXCEPT ![n + 1] = arr[j]], j + 1, n + 1)
         ELSE checkBlockersLoopLate(closeDone(st, arr[j].done), arr, j + 1, n)

RECURSIVE checkBlockersLoop(_, _, _, _)
checkBlockersLoop(st, arr, j, n) ==
    IF st.fault # "none" THEN st
    ELSE IF j > Len(arr) THEN [st EXCEPT !.blockers = SubSeq(arr, 1, n)]
    ELSE IF Len(st.sleepers) < arr[j].n
         THEN checkBlockersLoop(st, [arr EXCEPT ![n + 1] = arr[j]], j + 1, n + 1)
         ELSE checkBlockersLoop(closeDone(st, arr[j].done), arr, j + 1, n)

checkBlockers(st) == checkBlockersLoop(st, st.blockers, 1, 0)

\* ---- fakeClock.appendBlocker ----
appendBlocker(st, b) == [st EXCEPT !.blockers = Append(@, b)]

\* ---- fakeClock.appendSleeper ----
appendSleeperStrict(st, s) ==
    IF st.fault # "none" THEN st
    ELSE IF st.at > st.sl[s].until
         THEN wake([st EXCEPT !.sl[s].i = -1], s)
         ELSE checkBlockers([st EXCEPT !.sl[s].i = Len(st.sleepers),
                                       !.sleepers = Append(@, s)])

appendSleeper(st, s) ==
    IF st.fault # "none" THEN st
    ELSE IF ~(st.at < st.sl[s].until)
         THEN wake([st EXCEPT !.sl[s].i = -1], s)
         ELSE checkBlockers([st EXCEPT !.sl[s].i = Len(st.sleepers),
                                       !.sleepers = Append(@, s)])

\* ---- fakeClock.removeSleeper: returns the new state and the result ----
\* without clock.sleepers[i].i = i
removeSleeperNoFix(st, s) ==
    LET i == st.sl[s].i
        n == Len(st.sleepers)
    IN  IF st.fault # "none" \/ i < 0 THEN [st |-> st, ok |-> FALSE]
        ELSE IF i >= n THEN [st |-> [st EXCEPT !.fault = "index"], ok |-> FALSE]
        ELSE LET moved == st.sleepers[n]
                 arr == [st.sleepers EXCEPT ![i + 1] = moved]
                 sl2 == [st.sl EXCEPT ![s].i = -1]
             IN  [st |-> [st EXCEPT !.sleepers = SubSeq(arr, 1, n - 1), !.sl = sl2],
                  ok |-> TRUE]

removeSleeper(st, s) ==
    LET i == st.sl[s].i
        n == Len(st.sleepers)
    IN  IF st.fault # "none" \/ i < 0 THEN [st |-> st, ok |-> FALSE]
        ELSE IF i >= n THEN [st |-> [st EXCEPT !.fault = "index"], ok |-> FALSE]
        ELSE LET moved == st.sleepers[n]
                 arr == [st.sleepers EXCEPT ![i + 1] = moved]
                 sl1 == [st.sl EXCEPT ![moved].i = i]
                 sl2 == [sl1 EXCEPT ![s].i = -1]
             IN  [st |-> [st EXCEPT !.sleepers = SubSeq(arr, 1, n - 1), !.sl = sl2],
                  ok |-> TRUE]

\* ---- fakeClock.checkSleepers: re-registers every sleeper, in place ----
RECURSIVE checkSleepersLoop(_, _, _)
checkSleepersLoop(st, arr, j) ==
    IF st.fault # "none" \/ j > Len(arr) THEN st
    ELSE LET s == arr[j]
             rest(st1) ==
                 checkSleepersLoop(st1,
                                   IF Len(st1.sleepers) > Len(st.sleepers)
                                   THEN [arr EXCEPT ![Len(st1.sleepers)] = s]
                                   ELSE arr,
                                   j + 1)
         \* st1 ranges over the one state appendSleeper returns
         IN  CHOOSE r \in {rest(st1) : st1 \in {appendSleeper(st, s)}} : TRUE

\* without clock.sleepers = clock.sleepers[:0]
checkSleepersNoTruncate(st) == checkSleepersLoop(st, st.sleepers, 1)

checkSleepers(st) == checkSleepersLoop([st EXCEPT !.sleepers = <<>>], st.sleepers, 1)

(***************************************************************************)
(* The methods, as functions from the state before the call to the state   *)
(* after it and the value returned.                                        *)
(***************************************************************************)

\* ---- fakeClock.After ----
fakeClockAfterNoClamp(st, d) ==
    LET st1 == makeChan(st)
        c == Len(st1.chans)
        st2 == newSleeper(st1, 0, st.at + d, c, FALSE)
    IN  [st |-> appendSleeper(st2, Len(st2.sl)), ret |-> c]

fakeClockAfter(st, d) ==
    LET d1 == IF d < 0 THEN 0 ELSE d
        st1 == makeChan(st)
        c == Len(st1.chans)
        st2 == newSleeper(st1, 0, st.at + d1, c, FALSE)
    IN  [st |-> appendSleeper(st2, Len(st2.sl)), ret |-> c]

\* ---- fakeClock.AfterFunc ----
fakeClockAfterFunc(st, d) ==
    LET st1 == newSleeper(st, 0, st.at + d, 0, TRUE)
        s == Len(st1.sl)
        st2 == [st1 EXCEPT !.timers = Append(@, [stopped |-> FALSE, sleeper |-> s])]
    IN  [st |-> appendSleeper(st2, s), ret |-> Len(st2.timers)]

\* ---- fakeClock.NewTimer ----
fakeClockNewTimer(st, d) ==
    LET st1 == makeChan(st)
        st2 == newSleeper(st1, -1, st.at + d, Len(st1.chans), FALSE)
        st3 == [st2 EXCEPT !.timers = Append(@, [stopped |-> FALSE,
                                                 sleeper |-> Len(st2.sl)])]
    IN  [st |-> st3, ret |-> Len(st3.timers)]

\* ---- fakeTimer.C ----
fakeTimerCAlways(st, t) ==
    LET s == st.timers[t].sleeper
        st1 == appendSleeper(st, s)
    IN  [st |-> st1, ret |-> st1.sl[s].c]

fakeTimerC(st, t) ==
    LET s == st.timers[t].sleeper
        st1 == IF st.sl[s].i < 0 THEN appendSleeper(st, s) ELSE st
    IN  [st |-> st1, ret |-> st1.sl[s].c]

\* ---- fakeTimer.Stop ----
fakeTimerStopNoFlag(st, t) ==
    LET s == st.timers[t].sleeper
        r == removeSleeper(st, s)
    IN  IF st.timers[t].stopped
        THEN [st |-> st, ok |-> FALSE]
        ELSE [st |-> r.st, ok |-> IF r.ok THEN TRUE ELSE st.sl[s].until > st.at]

fakeTimerStop(st, t) ==
    LET s == st.timers[t].sleeper
        r == removeSleeper(st, s)
    IN  IF st.timers[t].stopped
        THEN [st |-> st, ok |-> FALSE]
        ELSE [st |-> [r.st EXCEPT !.timers[t].stopped = TRUE],
              ok |-> IF r.ok THEN TRUE ELSE st.sl[s].until > st.at]

\* ---- fakeTimer.Reset ----
fakeTimerResetSameChan(st, t, d) ==
    LET s == st.timers[t].sleeper
        d1 == IF d < 0 THEN 0 ELSE d
        st2 == [st EXCEPT !.sl[s].until = st.at + d1, !.sl[s].woke = FALSE,
                          !.started[s] = 0]
        r == removeSleeper(st2, s)
    IN  [st |-> IF st.sl[s].f THEN appendSleeper(r.st, s) ELSE r.st, ok |-> r.ok]

fakeTimerReset(st, t, d) ==
    LET s == st.timers[t].sleeper
        d1 == IF d < 0 THEN 0 ELSE d
        st1 == makeChan(st)
        st2 == [st1 EXCEPT !.sl[s].until = st.at + d1, !.sl[s].woke = FALSE,
                           !.sl[s].c = Len(st1.chans), !.started[s] = 0]
        r == removeSleeper(st2, s)
    IN  [st |-> IF st.sl[s].f THEN appendSleeper(r.st, s) ELSE r.st, ok |-> r.ok]

\* ---- fakeClock.NewTicker, for d > 0 (d <= 0 panics before anything is built) ----
fakeClockNewTicker(st, d) ==
    LET st1 == newSleeper(st, -1, ZeroTime, 0, FALSE)
        st2 == [st1 EXCEPT !.tickers = Append(@, [interval |-> d, next |-> st.at + d,
                                                  stopped |-> FALSE,
                                                  sleeper |-> Len(st1.sl)])]
    IN  [st |-> st2, ret |-> Len(st2.tickers)]

\* ---- fakeClock.NewTicker, the whole call: panic says that it ended in
\* panic(errNonPositiveInterval), before anything was built ----
fakeClockNewTickerNoCheck(st, d) ==
    LET r == fakeClockNewTicker(st, d)
    IN  [st |-> r.st, ret |-> r.ret, panic |-> FALSE]

fakeClockNewTickerOrPanic(st, d) ==
    IF d <= 0
    THEN [st |-> st, ret |-> 0, panic |-> TRUE]
    ELSE LET r == fakeClockNewTicker(st, d)
         IN  [st |-> r.st, ret |-> r.ret, panic |-> FALSE]

\* ---- fakeClock.Tick: ret is the ticker whose C method is returned, or 0
\* for the function that returns a nil channel ----
fakeClockTick(st, d) ==
    IF d <= 0
    THEN [st |-> st, ret |-> 0, panic |-> FALSE]
    ELSE fakeClockNewTickerOrPanic(st, d)

\* func() <-chan time.Time { return nil }
nilTick(st) == [st |-> st, ret |-> 0]

\* ---- fakeTicker.C ----
fakeTickerCSameNext(st, k) ==
    LET st1 == makeChan(st)
        c == Len(st1.chans)
        st2 == newSleeper(st1, 0, st.tickers[k].next, c, FALSE)
        s == Len(st2.sl)
        st3 == appendSleeper([st2 EXCEPT !.tickers[k].sleeper = s], s)
    IN  IF st.tickers[k].stopped
        THEN [st |-> st1, ret |-> c]
        ELSE [st |-> st3, ret |-> c]

fakeTickerC(st, k) ==
    LET st1 == makeChan(st)
        c == Len(st1.chans)
        st2 == newSleeper(st1, 0, st.tickers[k].next, c, FALSE)
        s == Len(st2.sl)
        st3 == appendSleeper([st2 EXCEPT !.tickers[k].sleeper = s], s)
    IN  IF st.tickers[k].stopped
        THEN [st |-> st1, ret |-> c]
        ELSE [st |-> [st3 EXCEPT !.tickers[k].next = @ + st.tickers[k].interval],
              ret |-> c]

\* ---- fakeTicker.Stop ----
fakeTickerStop(st, k) ==
    removeSleeper([st EXCEPT !.tickers[k].stopped = TRUE], st.tickers[k].sleeper).st

\* ---- fakeTicker.Reset, with no other call in progress ----
fakeTickerReset(st, k, d) ==
    LET st1 == fakeTickerStop(st, k)
    IN  [st1 EXCEPT !.tickers[k].stopped = FALSE,
                    !.tickers[k].interval = d,
                    !.sl[st.tickers[k].sleeper].until = st1.at + d]

\* ---- fakeClock.Advance ----
fakeClockAdvanceAnyD(st, d) == checkSleepers([st EXCEPT !.at = @ + d])

fakeClockAdvance(st, d) ==
    IF d <= 0 THEN st
    ELSE checkSleepers([st EXCEPT !.at = @ + d])

\* ---- fakeClock.Until ----
fakeClockUntilEarly(st, n) ==
    LET b == Len(st.dones) + 1
        st1 == [st EXCEPT !.dones = Append(@, [closed |-> FALSE, n |-> n,
                                               had |-> Len(st.sleepers)])]
    IN  [st |-> IF Len(st.sleepers) + 1 >= n
                THEN closeDone(st1, b)
                ELSE appendBlocker(st1, [n |-> n, done |-> b]),
         ret |-> b]

fakeClockUntil(st, n) ==
    LET b == Len(st.dones) + 1
        st1 == [st EXCEPT !.dones = Append(@, [closed |-> FALSE, n |-> n,
                                               had |-> Len(st.sleepers)])]
    IN  [st |-> IF Len(st.sleepers) >= n
                THEN closeDone(st1, b)
                ELSE appendBlocker(st1, [n |-> n, done |-> b]),
         ret |-> b]

(***************************************************************************)
(* The state machine: one action per call.                                 *)
(***************************************************************************)

\* ---- the state after NewFakeClock ----
NewFakeClock ==
    /\ at = StartTime
    /\ sleepers = <<>>
    /\ blockers = <<>>
    /\ sl = <<>>
    /\ chans = <<>>
    /\ dones = <<>>
    /\ timers = <<>>
    /\ tickers = <<>>
    /\ fault = "none"
    /\ sent = <<>>
    /\ started = <<>>
    /\ halted = <<>>
    /\ thalted = <<>>
    /\ tchans = <<>>
    /\ dropped = {}

\* No goroutine but the caller.
Idle == [pc |-> <<>>, dur |-> <<>>, ch |-> <<>>, drv |-> "none", dch |-> 0]

Init == NewFakeClock /\ g = Idle

Ready == fault = "none"
CanChan == Len(chans) < MaxChans
CanSleeper == Len(sl) < MaxSleepers

After(d) ==
    /\ Ready /\ CanChan /\ CanSleeper
    /\ Commit(fakeClockAfter(Cur, d).st)
    /\ UNCHANGED <<g, halted, thalted, tchans, dropped>>

AfterFunc(d) ==
    /\ Ready /\ CanSleeper /\ Len(timers) < MaxTimers
    /\ Commit(fakeClockAfterFunc(Cur, d).st)
    /\ halted' = Append(halted, "never")
    /\ UNCHANGED <<g, thalted, tchans, dropped>>

NewTimer(d) ==
    /\ Ready /\ CanChan /\ CanSleeper /\ Len(timers) < MaxTimers
    /\ Commit(fakeClockNewTimer(Cur, d).st)
    /\ halted' = Append(halted, "never")
    /\ UNCHANGED <<g, thalted, tchans, dropped>>

TimerC(t) ==
    /\ Ready
    /\ Commit(fakeTimerC(Cur, t).st)
    /\ UNCHANGED <<g, halted, thalted, tchans, dropped>>

TimerStop(t) ==
    /\ Ready
    /\ Commit(fakeTimerStop(Cur, t).st)
    /\ halted' = [halted EXCEPT ![t] = "stopped"]
    /\ UNCHANGED <<g, thalted, tchans, dropped>>

TimerReset(t, d) ==
    /\ Ready /\ CanChan
    /\ Commit(fakeTimerReset(Cur, t, d).st)
    /\ halted' = [halted EXCEPT ![t] = IF @ = "never" THEN "never" ELSE "rearmed"]
    /\ UNCHANGED <<g, thalted, tchans, dropped>>

NewTicker(d) ==
    /\ Ready
    /\ IF d <= 0
       THEN UNCHANGED vars                    \* panic(errNonPositiveInterval)
       ELSE /\ CanSleeper /\ Len(tickers) < MaxTickers
            /\ Commit(fakeClockNewTicker(Cur, d).st)
            /\ thalted' = Append(thalted, FALSE)
            /\ tchans' = Append(tchans, {})
            /\ UNCHANGED <<g, halted, dropped>>

TickerC(k) ==
    /\ Ready /\ CanChan /\ (tickers[k].stopped \/ CanSleeper)
    /\ Commit(fakeTickerC(Cur, k).st)
    /\ tchans' = [tchans EXCEPT ![k] = @ \cup {fakeTickerC(Cur, k).ret}]
    /\ dropped' = IF ~tickers[k].stopped /\ sl[tickers[k].sleeper].i >= 0
                  THEN dropped \cup {sl[tickers[k].sleeper].c}
                  ELSE dropped
    /\ UNCHANGED <<g, halted, thalted>>

TickerStop(k) ==
    /\ Ready
    /\ Commit(fakeTickerStop(Cur, k))
    /\ thalted' = [thalted EXCEPT ![k] = TRUE]
    /\ UNCHANGED <<g, halted, tchans, dropped>>

TickerReset(k, d) ==
    /\ Ready
    /\ Commit(fakeTickerReset(Cur, k, d))
    /\ thalted' = [thalted EXCEPT ![k] = FALSE]
    /\ UNCHANGED <<g, halted, tchans, dropped>>

Advance(d) ==
    /\ Ready /\ at + d <= MaxTime
    /\ Commit(fakeClockAdvance(Cur, d))
    /\ UNCHANGED <<g, halted, thalted, tchans, dropped>>

Until(n) ==
    /\ Ready /\ Len(dones) < MaxBlockers
    /\ Commit(fakeClockUntil(Cur, n).st)
    /\ UNCHANGED <<g, halted, thalted, tchans, dropped>>

\* A run stops allocating once MaxObjects heap objects exist: Room for the
\* specifications of a few calls, RoomAll, one object earlier, for the whole
\* machine, and RoomTicker, one object later, for the ticker calls (a ticker
\* is built with a sleeper of its own).
Objects == Len(sl) + Len(chans) + Len(dones)
Room == Objects < MaxObjects
RoomAll == Objects < MaxObjects - 1
RoomTicker == Objects < MaxObjects + 1

\* The whole machine.
Next ==
    \/ RoomAll /\ \E d \in Durations : After(d)
    \/ RoomAll /\ \E d \in Durations : AfterFunc(d)
    \/ RoomAll /\ \E d \in Durations : NewTimer(d)
    \/ \E t \in 1..Len(timers) : TimerC(t)
    \/ \E t \in 1..Len(timers) : TimerStop(t)
    \/ RoomAll /\ \E t \in 1..Len(timers), d \in Durations : TimerReset(t, d)
    \/ \E d \in Durations : (d <= 0 \/ RoomAll) /\ NewTicker(d)
    \/ RoomAll /\ \E k \in 1..Len(tickers) : TickerC(k)
    \/ \E k \in 1..Len(tickers) : TickerStop(k)
    \/ \E k \in 1..Len(tickers), d \in Periods : TickerReset(k, d)
    \/ \E d \in Durations : Advance(d)
    \/ RoomAll /\ \E n \in Counts : Until(n)

Spec == Init /\ [][Next]_vars

\* Registrations and advances only: no cancellation, no blocker.
NextFire ==
    \/ Room /\ \E d \in Durations : After(d)
    \/ Room /\ \E d \in Durations : AfterFunc(d)
    \/ Room /\ \E d \in Durations : NewTimer(d)
    \/ \E t \in 1..Len(timers) : TimerC(t)
    \/ Room /\ \E t \in 1..Len(timers), d \in Durations : TimerReset(t, d)
    \/ \E d \in Durations : (d <= 0 \/ Room) /\ NewTicker(d)
    \/ Room /\ \E k \in 1..Len(tickers) : TickerC(k)
    \/ \E d \in Durations : Advance(d)

SpecFire == Init /\ [][NextFire]_vars

(***************************************************************************)
(* Vocabulary of the properties.                                           *)
(***************************************************************************)
Pending(s) == sl[s].i >= 0
InRegistry(s) == \E p \in 1..Len(sleepers) : sleepers[p] = s
TimerSleepers == {timers[t].sleeper : t \in 1..Len(timers)}

\* The current arming of s has delivered nothing / exactly one value and one callback start.
NotFired(s) ==
    /\ sl[s].c # 0 => sent[sl[s].c] = 0
    /\ sl[s].f => started[s] = 0
FiredOnce(s) ==
    /\ sl[s].c # 0 => sent[sl[s].c] = 1
    /\ sl[s].f => started[s] = 1

\* A sleeper that every call of SpecFire offers to the registry when it arms it:
\* the sleepers of After and of Ticker.C, and the sleeper of an AfterFunc timer.
AlwaysOffered(s) == sl[s].f \/ (sl[s].c # 0 /\ s \notin TimerSleepers)

\* The step delivers a value on the channel that s has after it, or starts its callback.
FiresInStep(s) ==
    LET c == sl'[s].c
    IN  IF c # 0
        THEN sent'[c] > (IF c <= Len(sent) THEN sent[c] ELSE 0)
        ELSE started'[s] > (IF s <= Len(started) THEN started[s] ELSE 0)

\* C1: every sleeper offered to the registry fires exactly once per arming as
\* soon as its deadline is at or before the instant (at registration or
\* during the Advance that reaches it), a sleeper whose deadline is strictly
\* after the instant has not fired, and re-offering a fired sleeper (a later
\* Advance, a repeated Timer.C) delivers nothing more.
C1_State ==
    /\ fault = "none"
    /\ \A c \in 1..Len(sent) : sent[c] <= 1
    /\ \A s \in 1..Len(sl) :
         /\ started[s] <= 1
         /\ sl[s].woke => FiredOnce(s) /\ sl[s].until <= at
         /\ ~sl[s].woke => NotFired(s)
         /\ sl[s].until > at => NotFired(s)
         /\ Pending(s) => InRegistry(s) /\ ~sl[s].woke /\ sl[s].until > at
         /\ (AlwaysOffered(s) /\ sl[s].until <= at) => sl[s].woke /\ FiredOnce(s)
         /\ (AlwaysOffered(s) /\ sl[s].until > at) => Pending(s)
C1_Step ==
    /\ \A s \in 1..Len(sl') : FiresInStep(s) => sl'[s].until <= at' /\ sl'[s].woke
    /\ \A s \in 1..Len(sl) :
         (Pending(s) /\ sl'[s].c = sl[s].c) =>
            \/ sl'[s].i >= 0 /\ sl'[s].until > at' /\ ~sl'[s].woke
            \/ sl'[s].i < 0 /\ sl'[s].until <= at' /\ sl'[s].woke /\ FiresInStep(s)
C1_FiresExactlyOnce == [](C1_State) /\ [][C1_Step]_vars

\* C1 witness: a timer channel holds the one value of a fire that an Advance
\* caused, the timer was offered again by Timer.C, and another sleeper is
\* still pending.
C1_Witness ==
    \E t \in 1..Len(timers) : \E s2 \in 1..Len(sl) :
        LET s == timers[t].sleeper
        IN  /\ sl[s].woke /\ sl[s].c # 0 /\ sent[sl[s].c] = 1
            /\ sl[s].until > StartTime
            /\ Pending(s2) /\ sl[s2].until > at

\* Timers only: creation, C, Stop, Reset and advances.
NextTimer ==
    \/ Room /\ \E d \in Durations : AfterFunc(d)
    \/ Room /\ \E d \in Durations : NewTimer(d)
    \/ \E t \in 1..Len(timers) : TimerC(t)
    \/ \E t \in 1..Len(timers) : TimerStop(t)
    \/ Room /\ \E t \in 1..Len(timers), d \in Durations : TimerReset(t, d)
    \/ \E d \in Durations : Advance(d)

SpecTimer == Init /\ [][NextTimer]_vars

Halted(t) == halted[t] = "stopped"
EverStopped(t) == halted[t] # "never"

\* C2: once a timer has been stopped, and until it is reset, no step delivers
\* a value on its channel or starts its callback.
C2_StopPreventsFire ==
    [][\A t \in 1..Len(timers) :
          (Halted(t) /\ halted'[t] = "stopped") => ~FiresInStep(timers[t].sleeper)]_vars

\* The timer is armed and has not expired: created or reset since its last
\* Stop, with its deadline still ahead.
Armed(t) == ~Halted(t) /\ sl[timers[t].sleeper].until > at

\* C3: in every reachable state Stop returns true exactly when the timer is
\* armed and has not expired, and a Stop that returns false on a timer that
\* has not fired does not leave it pending in the registry.
C3_StopResult ==
    \A t \in 1..Len(timers) :
        LET s == timers[t].sleeper
            r == fakeTimerStop(Cur, t)
        IN  /\ r.ok <=> Armed(t)
            /\ (~r.ok /\ ~sl[s].woke) => r.st.sl[s].i < 0

NextUntil ==
    \/ Room /\ \E d \in Durations : NewTimer(d)
    \/ \E t \in 1..Len(timers) : TimerC(t)
    \/ \E t \in 1..Len(timers) : TimerStop(t)
    \/ \E d \in Durations : Advance(d)
    \/ Room /\ \E n \in Counts : Until(n)

SpecUntil == Init /\ [][NextUntil]_vars

Stored(b) == \E j \in 1..Len(blockers) : blockers[j].done = b
ClosesInStep(b) == dones'[b].closed /\ (b <= Len(dones) => ~dones[b].closed)

\* C5: the channel of Until(n) is closed at the call if at least n sleepers
\* are pending then; otherwise it is stored, stays open while fewer than n
\* are pending, and is closed by the registration that brings the count to
\* n; a closed channel is no longer stored, so none is closed twice.
C5_State ==
    /\ fault # "close"
    /\ \A b \in 1..Len(dones) :
         /\ dones[b].had >= dones[b].n => dones[b].closed
         /\ dones[b].closed <=> ~Stored(b)
         /\ ~dones[b].closed => Len(sleepers) < dones[b].n
    /\ \A j, k \in 1..Len(blockers) : blockers[j].done = blockers[k].done => j = k
C5_Step ==
    \A b \in 1..Len(dones') :
        ClosesInStep(b) =>
            /\ Len(sleepers') >= dones'[b].n
            /\ \/ b > Len(dones) /\ dones'[b].had >= dones'[b].n
               \/ b <= Len(dones) /\ Len(sleepers) < dones[b].n
                                  /\ Len(sleepers') = Len(sleepers) + 1
C5_UntilClosedExactlyWhenReached == [](C5_State) /\ [][C5_Step]_vars

\* C5 witness: a channel that was stored at its call has been closed by a
\* later registration while another one, asking for more, is still stored.
C5_Witness ==
    \E b1, b2 \in 1..Len(dones) :
        /\ dones[b1].closed /\ dones[b1].had < dones[b1].n
        /\ Stored(b2) /\ dones[b2].n > Len(sleepers)

\* Tickers, with After as a second source of sleepers.
NextTicker ==
    \/ RoomTicker /\ \E d \in Durations : After(d)
    \/ \E d \in Durations : (d <= 0 \/ RoomTicker) /\ NewTicker(d)
    \/ RoomTicker /\ \E k \in 1..Len(tickers) : TickerC(k)
    \/ \E k \in 1..Len(tickers) : TickerStop(k)
    \/ \E k \in 1..Len(tickers), d \in Periods : TickerReset(k, d)
    \/ \E d \in Durations : Advance(d)

SpecTicker == Init /\ [][NextTicker]_vars

\* The registry positions held by sleepers that C() of ticker k registered.
TickerPending(k) == {p \in 1..Len(sleepers) : sl[sleepers[p]].c \in tchans[k]}

\* C8: at most one sleeper of a ticker is pending in the registry, after any
\* sequence of C() calls.
C8_OnePendingPerTicker ==
    \A k \in 1..Len(tickers) : Cardinality(TickerPending(k)) <= 1

\* C9: a channel that C() returned and that was re-requested while its tick
\* was still pending never receives a value: the tick goes to the later
\* request only.
C9_DroppedTickNotDelivered ==
    \A c \in dropped : sent[c] = 0

\* C10: while a ticker is stopped and not reset, no step delivers a value on
\* any channel its C() ever returned, and a C() call registers no sleeper.
C10_NoTickAfterStop ==
    [][\A k \in 1..Len(tickers) :
          (thalted[k] /\ thalted'[k]) =>
             /\ \A c \in tchans'[k] : sent'[c] = (IF c <= Len(sent) THEN sent[c] ELSE 0)
             /\ tchans'[k] # tchans[k] => sleepers' = sleepers]_vars

\* C7: the instant never decreases and only Advance changes it; Advance(d)
\* adds exactly d when d > 0, and with d <= 0 it returns the state it was
\* given: same instant, same registry, same blockers, nothing fired.
C7_State ==
    \A d \in Durations :
        /\ d <= 0 => fakeClockAdvance(Cur, d) = Cur
        /\ d > 0 => fakeClockAdvance(Cur, d).at = at + d
C7_Step ==
    /\ at' >= at
    /\ at' # at => \E d \in Durations : d > 0 /\ at' = at + d
                                        /\ Commit(fakeClockAdvance(Cur, d))
C7_InstantOnlyAdvances == [](C7_State) /\ [][C7_Step]_vars

\* C7 witness: the clock has been advanced and a sleeper and a blocker are
\* stored, for a non-positive Advance to leave alone.
C7_Witness ==
    /\ at > StartTime
    /\ Len(sleepers) >= 1
    /\ Len(blockers) >= 1

\* C11: Ticker.Reset(d) called at instant T delivers nothing itself, and the
\* channel that the next C() returns belongs to a sleeper whose deadline is
\* T + d.
C11_ResetReschedules ==
    \A k \in 1..Len(tickers) : \A d \in Periods :
        LET st1 == fakeTickerReset(Cur, k, d)
            r == fakeTickerC(st1, k)
            s == r.st.tickers[k].sleeper
        IN  /\ st1.sent = sent /\ st1.started = started
            /\ r.st.sl[s].c = r.ret
            /\ r.st.sl[s].until = at + d

\* C12: the value that a fire puts on the channel of a NewTimer timer is the
\* instant of the clock at the end of the step that fires it.
C12_FireDeliversNow ==
    [][\A t \in 1..Len(timers') :
          LET s == timers'[t].sleeper
              c == sl'[s].c
          IN  (c # 0 /\ ~sl'[s].f /\ FiresInStep(s)) =>
                  chans'[c][Len(chans'[c])] = at']_vars

\* The sleeper of the timer has fired since it was last armed.
Fired(t) == sl[timers[t].sleeper].woke

\* C13: in every reachable state Reset returns true on a timer that is
\* armed and has not expired (whether or not C() was called), and false on
\* a timer that has fired or is stopped.
C13_ResetResult ==
    \A t \in 1..Len(timers) : \A d \in Durations :
        LET r == fakeTimerReset(Cur, t, d)
        IN  /\ Armed(t) => r.ok
            /\ (Halted(t) \/ Fired(t)) => ~r.ok

\* Reset(d) on timer t re-arms it for d from the instant of the call and
\* returns false: the channel that C() then returns is empty while d is
\* ahead and holds (instant at Reset) + d once the clock has advanced by d,
\* with a negative d taken as zero.
RearmsFromNow(t, d) ==
    LET d1 == IF d < 0 THEN 0 ELSE d
        r == fakeTimerReset(Cur, t, d)
        rc == fakeTimerC(r.st, t)
        c == rc.ret
        fin == IF d1 > 0 THEN fakeClockAdvance(rc.st, d1) ELSE rc.st
    IN  /\ ~r.ok
        /\ r.st.sl[timers[t].sleeper].until = at + d1
        /\ d1 > 0 => rc.st.chans[c] = <<>> /\ rc.st.sl[timers[t].sleeper].i >= 0
        /\ fin.chans[c] = <<at + d1>>
        /\ fin.fault = "none"

\* C14: Reset on a timer that has fired or is stopped returns false and
\* re-arms it from the instant of the call.
C14_ResetRearms ==
    \A t \in 1..Len(timers) : \A d \in Durations :
        (Fired(t) \/ Halted(t)) => RearmsFromNow(t, d)

\* C15: After(d) with d <= 0 returns a channel that already holds the
\* current instant, so that the receive of Sleep(d) needs no Advance; it
\* leaves the instant, the registry, the stored blockers and every done
\* channel as they were.
C15_NonPositiveAfterImmediate ==
    \A d \in Durations :
        d <= 0 =>
            LET r == fakeClockAfter(Cur, d)
            IN  /\ r.st.chans[r.ret] = <<at>>
                /\ r.st.sl[Len(r.st.sl)].i < 0
                /\ r.st.at = at
                /\ r.st.sleepers = sleepers
                /\ r.st.blockers = blockers
                /\ r.st.dones = dones
                /\ r.st.fault = "none"

\* C15 witness: After(d <= 0) has delivered the instant on its channel while
\* a blocker that one more pending sleeper would complete stays stored.
C15_Witness ==
    /\ \E s \in 1..Len(sl) :
          /\ s \notin TimerSleepers /\ sl[s].c # 0 /\ sl[s].i < 0
          /\ sl[s].until = at /\ chans[sl[s].c] = <<at>>
    /\ \E j \in 1..Len(blockers) :
          /\ blockers[j].n = Len(sleepers) + 1
          /\ ~dones[blockers[j].done].closed

\* C16: no call ends blocked in a send.  Nothing is ever received in these
\* runs, and still the channel of every sleeper that can fire is empty, and
\* Advance, After, Timer.C, Ticker.C and Timer.Reset (alone, and followed by
\* the C() that offers the sleeper again) return from every reachable state.
C16_WakeNeverBlocks ==
    /\ fault # "blocked"
    /\ \A s \in 1..Len(sl) :
         (~sl[s].woke /\ sl[s].c # 0) => chans[sl[s].c] = <<>>
    /\ \A d \in Durations :
         /\ fakeClockAdvance(Cur, d).fault # "blocked"
         /\ fakeClockAfter(Cur, d).st.fault # "blocked"
    /\ \A k \in 1..Len(tickers) : fakeTickerC(Cur, k).st.fault # "blocked"
    /\ \A t \in 1..Len(timers) :
         /\ fakeTimerC(Cur, t).st.fault # "blocked"
         /\ \A d \in Durations :
              /\ fakeTimerReset(Cur, t, d).st.fault # "blocked"
              /\ fakeTimerC(fakeTimerReset(Cur, t, d).st, t).st.fault # "blocked"

\* C16 witness: a callback timer that fired was reset, and the fire after
\* the Reset left its value in the new channel with nobody receiving.
C16_Witness ==
    \E t \in 1..Len(timers) :
        LET s == timers[t].sleeper
        IN  /\ sl[s].f /\ sl[s].c # 0 /\ sl[s].woke
            /\ chans[sl[s].c] = <<sl[s].until>>
            /\ started[s] = 1

\* C19: NewTimer adds nothing to the registry and completes no blocker;
\* C() on a timer that has not expired, was never stopped and is not in the
\* registry adds exactly its one sleeper; C() on a timer in the registry
\* changes nothing; and a second C() right after a first returns the same
\* channel and leaves the state of the first.
C19_State ==
    /\ \A d \in Durations :
         LET r == fakeClockNewTimer(Cur, d)
         IN  /\ r.st.sleepers = sleepers
             /\ r.st.blockers = blockers /\ r.st.dones = dones
             /\ r.st.sl[Len(r.st.sl)].i < 0
    /\ \A t \in 1..Len(timers) :
         LET s == timers[t].sleeper
             r1 == fakeTimerC(Cur, t)
             r2 == fakeTimerC(r1.st, t)
         IN  /\ r1.ret = sl[s].c
             /\ (~InRegistry(s) /\ sl[s].until > at /\ ~EverStopped(t)) =>
                    r1.st.sleepers = Append(sleepers, s)
             /\ InRegistry(s) => r1.st = Cur
             /\ r2.ret = r1.ret /\ r2.st = r1.st
C19_Step ==
    Len(timers') > Len(timers) => sleepers' = sleepers /\ dones' = dones
C19_LazyRegistration == [](C19_State) /\ [][C19_Step]_vars

\* C19 witness: C() has registered a timer, which a blocker counts, while
\* another blocker waits for one more sleeper.
C19_Witness ==
    /\ \E t \in 1..Len(timers) :
          /\ InRegistry(timers[t].sleeper) /\ ~sl[timers[t].sleeper].f
          /\ \E b \in 1..Len(dones) :
                dones[b].closed /\ dones[b].had < dones[b].n
    /\ \E j \in 1..Len(blockers) : blockers[j].n = Len(sleepers) + 1

\* Reset(d) on the callback timer t registers its sleeper at once for d
\* from the instant of the call (negative d taken as zero): with the
\* deadline ahead the sleeper is in the registry, no callback has started,
\* and an Advance(d) starts it exactly once; with d <= 0 the callback starts
\* once within the Reset.
ReschedulesCallback(t, d) ==
    LET s == timers[t].sleeper
        d1 == IF d < 0 THEN 0 ELSE d
        r == fakeTimerReset(Cur, t, d)
        fin == fakeClockAdvance(r.st, d1)
    IN  /\ r.st.sl[s].until = at + d1
        /\ d1 > 0 => /\ r.st.sl[s].i >= 0
                      /\ r.st.sleepers[r.st.sl[s].i + 1] = s
                      /\ r.st.started[s] = 0
        /\ d1 = 0 => r.st.sl[s].i < 0
        /\ fin.started[s] = 1
        /\ fin.fault = "none"

\* C20: for a timer made by AfterFunc, Reset returns true when the timer is
\* pending and false when it has fired or is stopped, and in both cases it
\* registers the sleeper again by itself.
C20_CallbackReset ==
    \A t \in 1..Len(timers) : \A d \in Durations :
        sl[timers[t].sleeper].f =>
            /\ (InRegistry(timers[t].sleeper) /\ ~Halted(t)) => fakeTimerReset(Cur, t, d).ok
            /\ (Fired(t) \/ Halted(t)) => ~fakeTimerReset(Cur, t, d).ok
            /\ ReschedulesCallback(t, d)

\* C23: a fire delivers the deadline of the sleeper, not the instant of the
\* clock: every value put on the channel of a sleeper is that sleeper's
\* until, and a timer, a ticker or an After of 1s armed at instant T and
\* fired by one Advance(2s) delivers T + 1s while the clock shows T + 2s.
C23_State ==
    /\ \A s \in 1..Len(sl) :
         sl[s].c # 0 => chans[sl[s].c] \in {<<>>, <<sl[s].until>>}
    /\ LET a == fakeClockNewTimer(Cur, 1)
           b == fakeTimerC(a.st, a.ret)
           e == fakeClockAdvance(b.st, 2)
       IN  e.at = at + 2 /\ e.chans[b.ret] = <<at + 1>>
    /\ LET a == fakeClockNewTicker(Cur, 1)
           b == fakeTickerC(a.st, a.ret)
           e == fakeClockAdvance(b.st, 2)
       IN  e.at = at + 2 /\ e.chans[b.ret] = <<at + 1>>
    /\ LET b == fakeClockAfter(Cur, 1)
           e == fakeClockAdvance(b.st, 2)
       IN  e.at = at + 2 /\ e.chans[b.ret] = <<at + 1>>
C23_Step ==
    \A s \in 1..Len(sl') :
        LET c == sl'[s].c
        IN  (c # 0 /\ FiresInStep(s)) => chans'[c][Len(chans'[c])] = sl'[s].until
RECURSIVE StillAhead(_, _)
StillAhead(arr, t) ==
    IF arr = <<>> THEN <<>>
    ELSE IF sl[Head(arr)].until > t
         THEN <<Head(arr)>> \o StillAhead(Tail(arr), t)
         ELSE StillAhead(Tail(arr), t)

\* C24: between calls, every sleeper in the registry has its deadline
\* strictly after the instant and has not been woken; a call of Advance
\* returns with every sleeper that was due at or before the new instant
\* fired and out of the registry, and with the others still pending, in
\* their order.
C24_State ==
    \A p \in 1..Len(sleepers) :
        sl[sleepers[p]].until > at /\ ~sl[sleepers[p]].woke
C24_Step ==
    at' > at =>
        /\ sleepers' = StillAhead(sleepers, at')
        /\ \A p \in 1..Len(sleepers) :
             LET s == sleepers[p]
             IN  IF sl[s].until <= at'
                 THEN sl'[s].woke /\ sl'[s].i = -1 /\ FiresInStep(s)
                 ELSE ~sl'[s].woke /\ ~FiresInStep(s) /\ sl'[s].until = sl[s].until
C24_PendingAreAhead == [](C24_State) /\ [][C24_Step]_vars

\* C24 witness: an Advance has fired a sleeper that was pending and has left
\* another one, due later, in the registry.
C24_Witness ==
    \E s1 \in 1..Len(sl) :
        /\ sl[s1].woke /\ sl[s1].i = -1
        /\ StartTime < sl[s1].until /\ sl[s1].until <= at
        /\ Len(sleepers) >= 1 /\ sleepers[1] # s1

\* Timers and blockers: every call that registers or removes a timer's
\* sleeper, next to Until.
NextBlockers ==
    \/ Room /\ \E d \in Durations : AfterFunc(d)
    \/ Room /\ \E d \in Durations : NewTimer(d)
    \/ \E t \in 1..Len(timers) : TimerC(t)
    \/ \E t \in 1..Len(timers) : TimerStop(t)
    \/ Room /\ \E t \in 1..Len(timers), d \in Durations : TimerReset(t, d)
    \/ \E d \in Durations : Advance(d)
    \/ Room /\ \E n \in Counts : Until(n)

SpecBlockers == Init /\ [][NextBlockers]_vars

\* The step is a Stop that stops timer t / a Reset of timer t (every Reset
\* gives the sleeper a channel made in the call).
StopsInStep(t) == timers'[t].stopped /\ ~timers[t].stopped
ResetsInStep(t) ==
    /\ Len(chans') = Len(chans) + 1
    /\ sl'[timers[t].sleeper].c = Len(chans')
\* The step completes a blocker that was stored before it.
CompletesInStep == \E b \in 1..Len(dones) : ClosesInStep(b)

\* Every stored blocker is open and asks for more sleepers than are pending.
C25_State ==
    /\ fault = "none"
    /\ \A j \in 1..Len(blockers) :
         /\ blockers[j].n > Len(sleepers)
         /\ ~dones[blockers[j].done].closed

\* C25 as stated: every stored blocker asks for more sleepers than are
\* pending, and no Stop, no Reset and no Advance completes a blocker.
C25_OriginalStep ==
    (\/ at' > at
     \/ \E t \in 1..Len(timers) : StopsInStep(t) \/ ResetsInStep(t)) => ~CompletesInStep
C25_RemovalsNeverComplete == [](C25_State) /\ [][C25_OriginalStep]_vars

\* C25, amended: every stored blocker asks for more sleepers than are
\* pending; a blocker is completed only by a step that adds a sleeper to the
\* registry and brings the count to its threshold; Stop, Reset of a timer
\* with a channel, Reset of a callback timer that does not add to the
\* registry, and Advance (with its one-by-one re-registration) complete
\* none and leave every stored blocker stored, in its place.
C25_Step ==
    /\ \A b \in 1..Len(dones) :
         ClosesInStep(b) => /\ Len(sleepers') = Len(sleepers) + 1
                            /\ Len(sleepers') >= dones[b].n
    /\ (\/ at' > at
        \/ \E t \in 1..Len(timers) :
              \/ StopsInStep(t)
              \/ ResetsInStep(t) /\ ~sl[timers[t].sleeper].f
              \/ ResetsInStep(t) /\ Len(sleepers') <= Len(sleepers))
       => ~CompletesInStep /\ blockers' = blockers
C25_BlockersNeedRegistration == [](C25_State) /\ [][C25_Step]_vars

\* C25 witness: a blocker is still stored after an Advance that fired a
\* pending sleeper and after a Stop that removed one.
C25_Witness ==
    /\ Len(blockers) >= 1 /\ at > StartTime
    /\ \E t \in 1..Len(timers) : Halted(t) /\ sl[timers[t].sleeper].until > at
    /\ \E s \in 1..Len(sl) : sl[s].woke /\ sl[s].until > StartTime

\* The registry agrees with the positions that the sleepers record: the
\* sleeper at position k has i = k, none is stored twice, and a sleeper that
\* is not stored has i = -1.
Consistent(st) ==
    /\ \A p \in 1..Len(st.sleepers) : st.sl[st.sleepers[p]].i = p - 1
    /\ \A p, q \in 1..Len(st.sleepers) : st.sleepers[p] = st.sleepers[q] => p = q
    /\ \A s \in 1..Len(st.sl) :
         (\A p \in 1..Len(st.sleepers) : st.sleepers[p] # s) => st.sl[s].i = -1

\* C26: after any sequence of calls the registry is consistent with the
\* recorded positions, and removeSleeper, given any sleeper, returns true
\* exactly when that sleeper is in the registry, takes out that sleeper and
\* no other, changes nothing when it returns false, and leaves the registry
\* consistent.
C26_RegistryConsistent ==
    /\ fault # "index"
    /\ Consistent(Cur)
    /\ \A s \in 1..Len(sl) :
         LET r == removeSleeper(Cur, s)
         IN  /\ r.ok <=> InRegistry(s)
             /\ ~r.ok => r.st = Cur
             /\ r.ok => /\ Len(r.st.sleepers) = Len(sleepers) - 1
                        /\ {r.st.sleepers[p] : p \in 1..Len(r.st.sleepers)}
                              = {sleepers[p] : p \in 1..Len(sleepers)} \ {s}
             /\ r.st.fault = "none" /\ Consistent(r.st)

\* C26 witness: a timer was stopped before its deadline, its sleeper is out
\* of the registry with i = -1, and a sleeper made after it is pending at
\* position 0, after an Advance.
C26_Witness ==
    \E t \in 1..Len(timers) :
        /\ Halted(t) /\ sl[timers[t].sleeper].until > at
        /\ sl[timers[t].sleeper].i = -1
        /\ at > StartTime
        /\ Len(sleepers) = 1 /\ sleepers[1] > timers[t].sleeper
        /\ sl[sleepers[1]].i = 0

(***************************************************************************)
(* A program that sleeps on the clock: MaxGoroutines goroutines call       *)
(* Sleep(dur[p]) (After, then a receive), and a driver calls Until(n) for  *)
(* the n goroutines it expects to block, waits for the channel to be       *)
(* closed, and then advances the clock.                                    *)
(***************************************************************************)
Goroutines == 1..MaxGoroutines
Expected == Cardinality({p \in Goroutines : g.dur[p] > 0})

InitSleep ==
    /\ NewFakeClock
    /\ \E dur \in [Goroutines -> SleepDurations] :
         g = [pc |-> [p \in Goroutines |-> "start"], dur |-> dur,
              ch |-> [p \in Goroutines |-> 0], drv |-> "until", dch |-> 0]

\* Sleep, first half: clock.After(d)
SleepCall(p) ==
    /\ Ready /\ g.pc[p] = "start"
    /\ \E r \in {fakeClockAfter(Cur, g.dur[p])} :
           /\ Commit(r.st)
           /\ g' = [g EXCEPT !.pc[p] = "waiting", !.ch[p] = r.ret]
    /\ UNCHANGED <<halted, thalted, tchans, dropped>>

\* Sleep, second half: the receive from the channel
SleepReturn(p) ==
    /\ g.pc[p] = "waiting"
    /\ Len(chans[g.ch[p]]) > 0
    /\ Commit([Cur EXCEPT !.chans[g.ch[p]] = Tail(@)])
    /\ g' = [g EXCEPT !.pc[p] = "done"]
    /\ UNCHANGED <<halted, thalted, tchans, dropped>>

\* the driver: done := clock.Until(n)
DriverUntil ==
    /\ Ready /\ g.drv = "until"
    /\ \E r \in {fakeClockUntil(Cur, Expected)} :
           /\ Commit(r.st)
           /\ g' = [g EXCEPT !.drv = "wait", !.dch = r.ret]
    /\ UNCHANGED <<halted, thalted, tchans, dropped>>

\* the driver: <-done
DriverWait ==
    /\ g.drv = "wait"
    /\ dones[g.dch].closed
    /\ g' = [g EXCEPT !.drv = "advance"]
    /\ UNCHANGED <<progVars, halted, thalted, tchans, dropped>>

\* the driver: clock.Advance(d)
DriverAdvance(d) ==
    /\ Ready /\ g.drv = "advance"
    /\ d > 0 /\ at + d <= MaxTime
    /\ \E st \in {fakeClockAdvance(Cur, d)} : Commit(st)
    /\ UNCHANGED <<g, halted, thalted, tchans, dropped>>

NextSleep ==
    \/ \E p \in Goroutines : SleepCall(p)
    \/ \E p \in Goroutines : SleepReturn(p)
    \/ DriverUntil
    \/ DriverWait
    \/ \E d \in Durations : DriverAdvance(d)

\* Every runnable goroutine is eventually scheduled.
SpecSleep ==
    /\ InitSleep /\ [][NextSleep]_vars
    /\ \A p \in Goroutines : WF_vars(SleepCall(p)) /\ WF_vars(SleepReturn(p))
    /\ WF_vars(DriverUntil) /\ WF_vars(DriverWait)
    /\ WF_vars(\E d \in Durations : DriverAdvance(d))

Delivered(p) == g.ch[p] # 0 /\ sent[g.ch[p]] = 1

\* C6: the driver advances only when every expected sleeper is pending; an
\* Advance then wakes exactly the waiting sleepers whose duration has
\* elapsed since the start, and every sleeper eventually returns once the
\* advances cover its duration.
C6_State ==
    /\ fault = "none"
    /\ g.drv = "until" => at = StartTime
    /\ g.drv = "wait" => at = StartTime
    /\ g.drv = "advance" => \A p \in Goroutines : g.pc[p] # "start" \/ g.dur[p] <= 0
    /\ \A p \in Goroutines :
         /\ g.pc[p] = "done" => Delivered(p)
         /\ g.pc[p] # "start" => (Delivered(p) <=> StartTime + g.dur[p] <= at
                                                    \/ g.dur[p] <= 0)
C6_Step ==
    at' # at =>
        \A p \in Goroutines :
            (g.ch[p] # 0 /\ sent'[g.ch[p]] > sent[g.ch[p]])
                <=> (g.pc[p] = "waiting" /\ ~Delivered(p)
                     /\ StartTime + g.dur[p] <= at')
C6_Live ==
    /\ (g.drv = "wait") ~> (g.drv = "advance")
    /\ \A p \in Goroutines :
         (g.pc[p] = "waiting" /\ StartTime + g.dur[p] <= at) ~> (g.pc[p] = "done")
    /\ <>(\A p \in Goroutines : g.pc[p] = "done")
C6_SleepersWakeOnTime == [](C6_State) /\ [][C6_Step]_vars /\ C6_Live

\* C6 witness: after Until(2) and a first Advance, the sleeper of 1s has
\* returned and the sleeper of 2s is still waiting with nothing delivered.
C6_Witness ==
    /\ g.drv = "advance" /\ Expected = 2 /\ at = StartTime + 1
    /\ \E p, q \in Goroutines :
         /\ g.dur[p] = 1 /\ g.pc[p] = "done"
         /\ g.dur[q] = 2 /\ g.pc[q] = "waiting" /\ ~Delivered(q)

(***************************************************************************)
(* A program with callbacks: the main goroutine calls AfterFunc, Advance   *)
(* and Timer.Reset, and the function given to AfterFunc calls the clock    *)
(* itself (Now, or Advance).  Every call takes clock.mutex, does its work  *)
(* and releases the mutex in a later step (the deferred Unlock).           *)
(*   g.lock  who holds clock.mutex: "free" | "main" | "cb"                 *)
(*   g.main  "idle" | "locked" (in a call, holding the mutex) |            *)
(*           "infunc" (running the function in the firing call: it waits   *)
(*           for the mutex that its own goroutine holds)                   *)
(*   g.cb    goroutines started for the function that have not yet called  *)
(*   g.run   "idle" | "locked": a started goroutine is inside its call     *)
(***************************************************************************)
\* what the function does: 0 stands for clock.Now(), d > 0 for clock.Advance(d)
CallbackOps == {0, 1}

InitCallback ==
    /\ NewFakeClock
    /\ g = [lock |-> "free", main |-> "idle", cb |-> 0, run |-> "idle"]

\* The callbacks that a call started: the sleepers whose count of starts
\* grew between st0 and st1 (rs is the sleeper that the call reset, or 0).
Starts(st0, st1, rs) ==
    Cardinality({s \in 1..Len(st1.started) :
                    st1.started[s] > (IF s = rs \/ s > Len(st0.started)
                                      THEN 0 ELSE st0.started[s])})

\* f: func() { f() }: the firing thread runs the function itself
runInline(gs, n) == IF n > 0 THEN [gs EXCEPT !.main = "infunc"] ELSE gs

\* f: func() { go f() }: each start is a goroutine of its own
runCallbacks(gs, n) == [gs EXCEPT !.cb = @ + n]

\* The main goroutine enters a call: Lock, then the body of the call.
MainEnter(r, rs) ==
    /\ Commit(r.st)
    /\ g' = runCallbacks([g EXCEPT !.lock = "main", !.main = "locked"],
                         Starts(Cur, r.st, rs))

MainAfterFunc(d) ==
    /\ Ready /\ g.main = "idle" /\ g.lock = "free"
    /\ Room /\ CanSleeper /\ Len(timers) < MaxTimers
    /\ \E r \in {fakeClockAfterFunc(Cur, d)} : MainEnter(r, 0)
    /\ halted' = Append(halted, "never")
    /\ UNCHANGED <<thalted, tchans, dropped>>

MainAdvance(d) ==
    /\ Ready /\ g.main = "idle" /\ g.lock = "free"
    /\ d > 0 /\ at + d <= MaxTime
    /\ \E st \in {fakeClockAdvance(Cur, d)} : MainEnter([st |-> st], 0)
    /\ UNCHANGED <<halted, thalted, tchans, dropped>>

MainReset(t, d) ==
    /\ Ready /\ g.main = "idle" /\ g.lock = "free"
    /\ Room /\ CanChan
    /\ \E r \in {fakeTimerReset(Cur, t, d)} : MainEnter(r, timers[t].sleeper)
    /\ halted' = [halted EXCEPT ![t] = IF @ = "never" THEN "never" ELSE "rearmed"]
    /\ UNCHANGED <<thalted, tchans, dropped>>

\* The deferred Unlock of the call, and its return.
MainReturn ==
    /\ g.main = "locked"
    /\ g' = [g EXCEPT !.lock = "free", !.main = "idle"]
    /\ UNCHANGED <<progVars, halted, thalted, tchans, dropped>>

\* A started goroutine runs the function: it enters its clock call.
CallbackEnter(d) ==
    /\ Ready /\ g.cb > 0 /\ g.run = "idle" /\ g.lock = "free"
    /\ at + d <= MaxTime
    /\ \E st \in {fakeClockAdvance(Cur, d)} :
           /\ Commit(st)
           /\ g' = runCallbacks([g EXCEPT !.lock = "cb", !.run = "locked",
                                          !.cb = @ - 1],
                                Starts(Cur, st, 0))
    /\ UNCHANGED <<halted, thalted, tchans, dropped>>

CallbackReturn ==
    /\ g.run = "locked"
    /\ g' = [g EXCEPT !.lock = "free", !.run = "idle"]
    /\ UNCHANGED <<progVars, halted, thalted, tchans, dropped>>

NextCallback ==
    \/ \E d \in Durations : MainAfterFunc(d)
    \/ \E d \in Durations : MainAdvance(d)
    \/ \E t \in 1..Len(timers), d \in Durations : MainReset(t, d)
    \/ MainReturn
    \/ \E d \in CallbackOps : CallbackEnter(d)
    \/ CallbackReturn

\* A goroutine that can run is eventually scheduled; the main goroutine may
\* stop calling at any point.
SpecCallback ==
    /\ InitCallback /\ [][NextCallback]_vars
    /\ WF_vars(MainReturn)
    /\ WF_vars(\E d \in CallbackOps : CallbackEnter(d))
    /\ WF_vars(CallbackReturn)

\* C17: the function of AfterFunc is never run by the call that fires it:
\* no goroutine runs it while holding the mutex, every call that fires
\* (AfterFunc, Advance, Reset) returns and frees the mutex without waiting
\* for it, and every started function gets to make its own clock call.
C17_State ==
    /\ g.main # "infunc"
    /\ g.lock = "main" <=> g.main = "locked"
    /\ g.lock = "cb" <=> g.run = "locked"
    /\ g.cb >= 0
C17_Live ==
    /\ (g.main = "locked") ~> (g.main = "idle")
    /\ <>[](g.cb = 0 /\ g.run = "idle" /\ g.lock = "free")
C17_CallbackOffThread == [](C17_State) /\ C17_Live

\* C17 witness: the call that fired still holds the mutex, and the function
\* it started has its goroutine, which has not entered its call.
C17_Witness ==
    /\ g.main = "locked" /\ g.lock = "main" /\ g.cb > 0
    /\ at > StartTime

(***************************************************************************)
(* Ticker.Reset next to other callers.  Reset takes the mutex only inside  *)
(* the Stop it calls (line 238); lines 239 to 241 run after Stop has       *)
(* released it, so calls of other goroutines can come in between.          *)
(*   g.rpc  where the goroutine in Reset is: "idle" (not in Reset),        *)
(*          "stopped" (after 238), "enabled" (after 239), "interval"       *)
(*          (after 240);  g.rk, g.rd: the ticker and the period of Reset   *)
(***************************************************************************)
InitRace ==
    /\ NewFakeClock
    /\ g = [rpc |-> "idle", rk |-> 0, rd |-> 0]

\* line 238: ticker.Stop()
ResetStop(k, d) ==
    /\ Ready /\ g.rpc = "idle"
    /\ Commit(fakeTickerStop(Cur, k))
    /\ thalted' = [thalted EXCEPT ![k] = TRUE]
    /\ g' = [rpc |-> "stopped", rk |-> k, rd |-> d]
    /\ UNCHANGED <<halted, tchans, dropped>>

\* line 239: ticker.stopped = false
ResetEnable ==
    /\ g.rpc = "stopped"
    /\ tickers' = [tickers EXCEPT ![g.rk].stopped = FALSE]
    /\ thalted' = [thalted EXCEPT ![g.rk] = FALSE]
    /\ g' = [g EXCEPT !.rpc = "enabled"]
    /\ UNCHANGED <<at, sleepers, blockers, sl, chans, dones, timers, fault,
                   sent, started, halted, tchans, dropped>>

\* line 240: ticker.interval = d
ResetInterval ==
    /\ g.rpc = "enabled"
    /\ tickers' = [tickers EXCEPT ![g.rk].interval = g.rd]
    /\ g' = [g EXCEPT !.rpc = "interval"]
    /\ UNCHANGED <<at, sleepers, blockers, sl, chans, dones, timers, fault,
                   sent, started, halted, thalted, tchans, dropped>>

\* line 241: ticker.sleeper.until = ticker.clock.Now().Add(d)
ResetUntil ==
    /\ g.rpc = "interval"
    /\ sl' = [sl EXCEPT ![tickers[g.rk].sleeper].until = at + g.rd]
    /\ g' = [rpc |-> "idle", rk |-> 0, rd |-> 0]
    /\ UNCHANGED <<at, sleepers, blockers, chans, dones, timers, tickers, fault,
                   sent, started, halted, thalted, tchans, dropped>>

NextRace ==
    \/ \E d \in Durations : (d <= 0 \/ RoomTicker) /\ NewTicker(d)
    \/ RoomTicker /\ \E k \in 1..Len(tickers) : TickerC(k)
    \/ \E d \in Durations : Advance(d)
    \/ \E k \in 1..Len(tickers), d \in Periods : ResetStop(k, d)
    \/ ResetEnable
    \/ ResetInterval
    \/ ResetUntil

SpecRace == InitRace /\ [][NextRace]_vars

\* C18: a call is one step for every other caller, and fields are written
\* under the mutex only: once the goroutine in Ticker.Reset is past the Stop
\* of line 238, which released the mutex, (1) the next step is its own, so
\* no C() and no Advance of another goroutine sees the ticker in between,
\* and (2) no step writes a field of a ticker or of a sleeper.
C18_CallsAtomic ==
    [][g.rpc # "idle" => /\ g'.rpc # g.rpc
                         /\ tickers' = tickers /\ sl' = sl]_vars

(***************************************************************************)
(* A program that builds tickers, takes their ticks and stops them (it     *)
(* resets none), with the history of its calls.                            *)
(*   g.born[k], g.period[k]  the instant and the interval of the call that *)
(*                           built ticker k                                *)
(*   g.calls[k]   the channels that the C() calls of ticker k returned, in *)
(*                order                                                    *)
(*   g.pure[k]    ticker k was never stopped                               *)
(*   g.nilfn      Tick has returned the function that yields nil           *)
(*   g.last       how the latest NewTicker, Tick or tick() call ended:     *)
(*                "none" | "panic" | "ticker" | "nilfunc" | "nilchan" |    *)
(*                "chan"                                                   *)
(***************************************************************************)
InitTick ==
    /\ NewFakeClock
    /\ g = [born |-> <<>>, period |-> <<>>, calls |-> <<>>, pure |-> <<>>,
            nilfn |-> FALSE, last |-> "none"]

\* The caller's record of a NewTicker or Tick call that returned r.
Built(r, d) ==
    /\ IF r.ret = 0
       THEN /\ g' = [g EXCEPT !.last = IF r.panic THEN "panic" ELSE "nilfunc",
                              !.nilfn = @ \/ ~r.panic]
            /\ UNCHANGED <<thalted, tchans>>
       ELSE /\ g' = [g EXCEPT !.born = Append(@, at), !.period = Append(@, d),
                              !.calls = Append(@, <<>>), !.pure = Append(@, TRUE),
                              !.last = "ticker"]
            /\ thalted' = Append(thalted, FALSE)
            /\ tchans' = Append(tchans, {})
    /\ UNCHANGED <<halted, dropped>>

TickNewTicker(d) ==
    /\ Ready
    /\ \E r \in {fakeClockNewTickerOrPanic(Cur, d)} :
          /\ r.ret # 0 => RoomTicker /\ CanSleeper /\ Len(tickers) < MaxTickers
          /\ Commit(r.st)
          /\ Built(r, d)

TickTick(d) ==
    /\ Ready
    /\ \E r \in {fakeClockTick(Cur, d)} :
          /\ r.ret # 0 => RoomTicker /\ CanSleeper /\ Len(tickers) < MaxTickers
          /\ Commit(r.st)
          /\ Built(r, d)

\* tick(), for the function that Tick returned for a non-positive interval
TickNil ==
    /\ Ready /\ g.nilfn
    /\ \E r \in {nilTick(Cur)} :
          /\ Commit(r.st)
          /\ g' = [g EXCEPT !.last = IF r.ret = 0 THEN "nilchan" ELSE "chan"]
    /\ UNCHANGED <<halted, thalted, tchans, dropped>>

\* ticker.C(), or tick() for the function that Tick returned for a positive interval
TickC(k) ==
    /\ Ready /\ CanChan /\ (tickers[k].stopped \/ CanSleeper)
    /\ \E r \in {fakeTickerC(Cur, k)} :
          /\ Commit(r.st)
          /\ tchans' = [tchans EXCEPT ![k] = @ \cup {r.ret}]
          /\ g' = [g EXCEPT !.calls[k] = Append(@, r.ret)]
    /\ dropped' = IF ~tickers[k].stopped /\ sl[tickers[k].sleeper].i >= 0
                  THEN dropped \cup {sl[tickers[k].sleeper].c}
                  ELSE dropped
    /\ UNCHANGED <<halted, thalted>>

TickStop(k) ==
    /\ Ready
    /\ Commit(fakeTickerStop(Cur, k))
    /\ thalted' = [thalted EXCEPT ![k] = TRUE]
    /\ g' = [g EXCEPT !.pure[k] = FALSE]
    /\ UNCHANGED <<halted, tchans, dropped>>

NextTick ==
    \/ \E d \in Durations : TickNewTicker(d)
    \/ \E d \in Durations : TickTick(d)
    \/ TickNil
    \/ RoomTicker /\ \E k \in 1..Len(tickers) : TickC(k)
    \/ \E k \in 1..Len(tickers) : TickStop(k)
    \/ \E d \in Durations : Advance(d)
    \/ Room /\ \E n \in Counts : Until(n)

SpecTick == InitTick /\ [][NextTick]_vars

\* The sleepers that deliver on channel c.
SleepersOf(c) == {s \in 1..Len(sl) : sl[s].c = c}

\* C21: for a ticker built at instant T with interval d and never stopped or
\* reset, the channel of the j-th C() belongs to one sleeper, whose deadline
\* is T + j*d; while the instant is before the deadline the sleeper is
\* pending and the channel is empty, and from the moment the instant is at
\* or past it (reached by an Advance, or already so at the C() call) the
\* channel holds the one tick.
C21_TickDeadlines ==
    /\ fault = "none"
    /\ \A k \in 1..Len(tickers) :
         g.pure[k] =>
            \A j \in 1..Len(g.calls[k]) :
                LET c == g.calls[k][j]
                    due == g.born[k] + j * g.period[k]
                IN  /\ Cardinality(SleepersOf(c)) = 1
                    /\ \A s \in SleepersOf(c) :
                         /\ sl[s].until = due
                         /\ IF at >= due
                            THEN chans[c] = <<due>> /\ sl[s].woke /\ ~InRegistry(s)
                            ELSE chans[c] = <<>> /\ ~sl[s].woke /\ InRegistry(s)

\* C21 witness: two C() calls of one ticker, the first tick delivered and the
\* second, one interval later, delivered as well.
C21_Witness ==
    \E k \in 1..Len(tickers) :
        /\ g.pure[k] /\ Len(g.calls[k]) = 2
        /\ chans[g.calls[k][1]] = <<g.born[k] + g.period[k]>>
        /\ chans[g.calls[k][2]] = <<g.born[k] + 2 * g.period[k]>>

\* C22: with an interval d <= 0, NewTicker ends in its panic and Tick returns,
\* without a panic, the function whose every call returns the nil channel;
\* none of these calls changes the registry, the blocker list, the instant
\* or anything else of the clock, and no ticker with a non-positive interval
\* ever exists.
C22_State ==
    /\ g.last # "chan"
    /\ \A k \in 1..Len(tickers) : g.period[k] > 0 /\ tickers[k].interval > 0
    /\ \A d \in Durations :
         d <= 0 =>
            LET n == fakeClockNewTickerOrPanic(Cur, d)
                t == fakeClockTick(Cur, d)
                f == nilTick(t.st)
            IN  /\ n.panic /\ n.ret = 0 /\ n.st = Cur
                /\ ~t.panic /\ t.ret = 0 /\ t.st = Cur
                /\ f.ret = 0 /\ f.st = Cur
C22_Step ==
    (g'.last # g.last /\ g'.last \in {"panic", "nilfunc", "nilchan"}) =>
        /\ UNCHANGED <<at, sleepers, blockers, sl, chans, dones, timers, tickers,
                       fault, sent, started>>
        /\ g'.calls = g.calls /\ g'.born = g.born
C22_NonPositiveInterval == [](C22_State) /\ [][C22_Step]_vars

\* C22 witness: NewTicker has just ended in its panic, after Tick returned
\* the nil function, while a sleeper is pending and a blocker is stored.
C22_Witness ==
    /\ g.last = "panic" /\ g.nilfn
    /\ Len(sleepers) >= 1 /\ Len(blockers) >= 1
====
